---- MODULE Spec2Model ----
(***************************************************************************)
(* A model of the sobject library: PromiseHelper.executeWithRetry, the     *)
(* SalesForceConnection request/authentication layer and the SObject       *)
(* query/CRUD operations.                                                  *)
(*                                                                         *)
(* Three specifications share the module:                                  *)
(*   SpecRetry  PromiseHelper.executeWithRetry with an arbitrary operation *)
(*              and retry predicate                                        *)
(*   SpecConn   SalesForceConnection.request over a nondeterministic       *)
(*              transport and login service                                *)
(*   SpecSObj   the SObject operations over a nondeterministic connection  *)
(*                                                                         *)
(* JavaScript's undefined option is modelled as the empty set and a given  *)
(* option n as {n}.                                                        *)
(***************************************************************************)
EXTENDS Integers, Sequences, FiniteSets, TLC

VARIABLES
    \* ---- PromiseHelper.executeWithRetry (SpecRetry)
    phOptions,      \* the options object of the call
    phPc,           \* "idle" | "timer" | "running" | "resolved" | "rejected"
    phCurrentRetry, \* currentRetry of the worker in progress
    phInvocations,  \* number of promiseProvider() invocations
    phDelays,       \* the setTimeout delays scheduled, in order
    phErrors,       \* the errors the operation produced, in order
    phOutcome,      \* the settlement of the returned promise
    \* ---- SalesForceConnection (SpecConn)
    requestRetriesMaxOpt, \* constructor option requestRetriesMax
    accessTokenPromise,   \* this._accessTokenPromise: 0, or the login it wraps
    instanceUrl,          \* this._instanceUrl: 0, or the login that set it
    logins,               \* the login requests issued, each with its state
    req,                  \* the request() call of each caller
    seen401,              \* whether a login or a request was answered 401
    \* ---- SObject (SpecSObj)
    objectNameOpt,   \* constructor option objectName
    ctorPropertyMap, \* the entries of options.propertyMap at construction
    propertyMap,     \* the entries of this._propertyMap, the same object, now
    opPc,            \* "idle" | "waiting" | "resolved" | "rejected"
    opMethod,        \* the public method called
    opArg,           \* its argument
    opPropertyMap,   \* the entries of this._propertyMap when it was called
    opSent,          \* the requests passed to connection.request, in order
    opResponses,     \* the responses connection.request resolved to, in order
    opRaw,           \* the records executeQuery resolved to
    opValue,         \* the value the operation resolved to
    opError,         \* the error the operation rejected with
    logged,          \* the data of each logger.error call of the operation
    \* ---- one call of a function that keeps no state (SpecConvertTo)
    fnName,          \* "none", or the function that was called
    fnArgs,          \* its arguments
    fnResult         \* what it returned

varsRetry == <<phOptions, phPc, phCurrentRetry, phInvocations, phDelays,
               phErrors, phOutcome>>
varsConn == <<requestRetriesMaxOpt, accessTokenPromise, instanceUrl, logins, req,
              seen401>>
varsSObj == <<objectNameOpt, ctorPropertyMap, propertyMap, opPc, opMethod, opArg,
              opPropertyMap, opSent, opResponses, opRaw, opValue, opError, logged>>
varsFn == <<fnName, fnArgs, fnResult>>
vars == <<varsRetry, varsConn, varsSObj, varsFn>>

(***************************************************************************)
(* Bounds of the model.                                                    *)
(***************************************************************************)
MaxRetriesOpt == 3
MaxRequests == 2
MaxLogins == 5
MaxPages == 3

(***************************************************************************)
(* Program constants.                                                      *)
(***************************************************************************)
DefaultMaxRetries == 9
DefaultRetryBackoffFactor == 50
DefaultRequestRetriesMax == 8
AuthRetriesDefault == 3
DEFAULT_API_VERSION == "34.0"

\* JavaScript's `opt || dflt` for a numeric option: undefined and 0 are falsy.
OrDefault(opt, dflt) ==
    IF opt = {} \/ opt = {0} THEN dflt ELSE CHOOSE n \in opt : TRUE

(***************************************************************************)
(* PromiseHelper                                                           *)
(***************************************************************************)
\* ExponentialBackoffMs growing with the retry number instead of its power
\* of two.
ExponentialBackoffMsLinear(currentRetry, retryBackoffFactor) ==
    currentRetry * retryBackoffFactor

\* exponentialBackoffMs of the worker.
ExponentialBackoffMs(currentRetry, retryBackoffFactor) ==
    IF currentRetry # 0 THEN (2 ^ currentRetry) * retryBackoffFactor ELSE 0

\* ShouldRetry with the comparison off by one.
ShouldRetryOffByOne(currentRetry, maxRetries, predicateResult) ==
    currentRetry <= maxRetries /\ predicateResult

\* The worker's test in its catch handler.
ShouldRetry(currentRetry, maxRetries, predicateResult) ==
    currentRetry < maxRetries /\ predicateResult

PhMaxRetries(options) == OrDefault(options.maxRetries, DefaultMaxRetries)
PhRetryBackoffFactor(options) ==
    OrDefault(options.retryBackoffFactor, DefaultRetryBackoffFactor)

\* options.retryPredicate || (() => true); the named predicates are the
\* callers' predicates the model draws from.
PhRetryPredicate(options, err, currentRetry) ==
    CASE options.retryPredicate = "undefined" -> TRUE
      [] options.retryPredicate = "always"    -> TRUE
      [] options.retryPredicate = "never"     -> FALSE
      [] options.retryPredicate = "firstOnly" -> currentRetry < 1

PhOptionsSet ==
    [maxRetries : {{}} \cup {{n} : n \in 0..MaxRetriesOpt},
     retryBackoffFactor : {{}, {0}, {1}, {100}},
     retryPredicate : {"undefined", "always", "never", "firstOnly"}]

\* An error object of the operation: id tells the objects apart, message
\* and statusCode are what it carries.
NoPhError == [id |-> 0, message |-> <<>>, statusCode |-> 0]

PhErrorKinds ==
    {[message |-> <<"socket", "timeout">>, statusCode |-> 0],
     [message |-> <<"server", "error">>, statusCode |-> 500]}

NoOutcome == [status |-> "pending", err |-> NoPhError]

\* GiveUpError wrapping the error in a new one.
GiveUpErrorWrapped(err) ==
    [id |-> 0, message |-> <<"Promise retry limit exceeded.">> \o err.message,
     statusCode |-> err.statusCode]

\* reject(err) in the worker, rethrown by the catch of executeWithRetry.
GiveUpError(err) == err

InitRetryVars ==
    /\ phOptions = [maxRetries |-> {}, retryBackoffFactor |-> {},
                    retryPredicate |-> "undefined"]
    /\ phPc = "idle"
    /\ phCurrentRetry = 0
    /\ phInvocations = 0
    /\ phDelays = <<>>
    /\ phErrors = <<>>
    /\ phOutcome = NoOutcome

\* executeWithRetry(promiseProvider, options): starts the worker with
\* currentRetry = 0, which arms a timer of 0 ms.
executeWithRetry(options) ==
    /\ phPc = "idle"
    /\ phOptions' = options
    /\ phCurrentRetry' = 0
    /\ phDelays' = <<ExponentialBackoffMs(0, PhRetryBackoffFactor(options))>>
    /\ phPc' = "timer"
    /\ UNCHANGED <<phInvocations, phErrors, phOutcome>>

\* The setTimeout callback: promiseProvider() is invoked.
PhTimerFires ==
    /\ phPc = "timer"
    /\ phInvocations' = phInvocations + 1
    /\ phPc' = "running"
    /\ UNCHANGED <<phOptions, phCurrentRetry, phDelays, phErrors, phOutcome>>

\* promiseProvider() resolved: resolve(result).
PhOperationResolves ==
    /\ phPc = "running"
    /\ phPc' = "resolved"
    /\ phOutcome' = [status |-> "resolved", err |-> NoPhError]
    /\ UNCHANGED <<phOptions, phCurrentRetry, phInvocations, phDelays, phErrors>>

\* promiseProvider() rejected with a fresh error object of the given kind:
\* the worker's catch handler.
PhOperationRejects(kind) ==
    /\ phPc = "running"
    /\ LET err == [id |-> phInvocations, message |-> kind.message,
                   statusCode |-> kind.statusCode]
       IN /\ phErrors' = Append(phErrors, err)
          /\ IF ShouldRetry(phCurrentRetry, PhMaxRetries(phOptions),
                            PhRetryPredicate(phOptions, err, phCurrentRetry))
             THEN /\ phCurrentRetry' = phCurrentRetry + 1
                  /\ phDelays' = Append(phDelays,
                        ExponentialBackoffMs(phCurrentRetry + 1,
                                             PhRetryBackoffFactor(phOptions)))
                  /\ phPc' = "timer"
                  /\ UNCHANGED phOutcome
             ELSE /\ phPc' = "rejected"
                  /\ phOutcome' = [status |-> "rejected", err |-> GiveUpError(err)]
                  /\ UNCHANGED <<phCurrentRetry, phDelays>>
    /\ UNCHANGED <<phOptions, phInvocations>>

(***************************************************************************)
(* SalesForceConnection                                                    *)
(***************************************************************************)
\* An error is [statusCode, message]; statusCode 0 stands for an error that
\* carries no statusCode, and a message is the sequence of its words.
Includes(message, word) == \E i \in 1..Len(message) : message[i] = word

AuthRetriesExceededError ==
    [statusCode |-> 0,
     message |-> <<"Exceeded the maximum number of authentication retries.">>]

NoError == [statusCode |-> 0, message |-> <<>>]

TransportMessages ==
    {<<>>, <<"UNABLE_TO_LOCK_ROW">>, <<"x", "QUERY_TIMEOUT">>, <<"other">>}

\* The failures the transport can answer with: an HTTP status, or none (a
\* timeout or a socket error).
TransportErrors ==
    {[statusCode |-> s, message |-> m] : s \in {400, 500}, m \in TransportMessages}
    \cup {[statusCode |-> s, message |-> <<"other">>] :
            s \in {0, 401, 403, 404, 410, 503}}

LoginErrors ==
    {[statusCode |-> s, message |-> <<"other">>] : s \in {0, 401, 500}}

StatusCodesToNotRetry == {404, 410, 403}

\* _determineIfRequestShouldBeRetried(error, currentRetry): the returned flag
\* (the logging apart).
_determineIfRequestShouldBeRetried(error) ==
    LET retryable == error.statusCode \in StatusCodesToNotRetry
    IN IF error.statusCode \in {400, 500}
       THEN IF error.message # <<>> /\ Includes(error.message, "UNABLE_TO_LOCK_ROW")
            THEN retryable
            ELSE IF error.message # <<>> /\ Includes(error.message, "QUERY_TIMEOUT")
                 THEN retryable
                 ELSE FALSE
       ELSE retryable

\* this._requestRetriesMax as the constructor sets it.
RequestRetriesMax ==
    IF requestRetriesMaxOpt = {} THEN DefaultRequestRetriesMax
    ELSE CHOOSE n \in requestRetriesMaxOpt : TRUE

\* The maxRetries executeWithRetry works with when request() calls it.
ConnMaxRetries == OrDefault({RequestRetriesMax}, DefaultMaxRetries)

IdleRequest ==
    [pc |-> "idle", n |-> 0, currentRetry |-> 0, delay |-> 0,
     authRetriesRemaining |-> 0, waitingOn |-> 0, sentTok |-> 0, sentUrl |-> 0,
     calls |-> 0, chainCalls |-> 0, chainRenewals |-> 0, chainLogin401 |-> 0,
     err |-> NoError]

InitConn(callers) ==
    /\ requestRetriesMaxOpt \in {{}} \cup {{n} : n \in 0..MaxRetriesOpt}
    /\ accessTokenPromise = 0
    /\ instanceUrl = 0
    /\ logins = <<>>
    /\ req = [p \in callers |-> IdleRequest]
    /\ seen401 = FALSE

\* request(options): executeWithRetry starts its worker, which arms a timer
\* of 0 ms.
request(p) ==
    /\ req[p].pc \in {"idle", "resolved", "rejected"}
    /\ req[p].n < MaxRequests
    /\ req' = [req EXCEPT ![p] =
                 [IdleRequest EXCEPT !.pc = "timer", !.n = req[p].n + 1,
                                     !.sentTok = req[p].sentTok,
                                     !.sentUrl = req[p].sentUrl]]
    /\ UNCHANGED <<requestRetriesMaxOpt, accessTokenPromise, instanceUrl, logins,
                   seen401>>

\* The worker's catch handler, run with the error _request() threw.
WorkerCatch(r, error) ==
    IF ShouldRetry(r.currentRetry, ConnMaxRetries,
                   _determineIfRequestShouldBeRetried(error))
    THEN [r EXCEPT !.pc = "timer", !.err = error,
                   !.currentRetry = r.currentRetry + 1,
                   !.delay = ExponentialBackoffMs(r.currentRetry + 1,
                                                  DefaultRetryBackoffFactor)]
    ELSE [r EXCEPT !.pc = "rejected", !.err = error]

\* AuthRetriesUsedUp giving up one renewal early.
AuthRetriesUsedUpEarly(authRetriesRemaining) == authRetriesRemaining <= 1

\* _request(): authRetriesRemaining is used up.
AuthRetriesUsedUp(authRetriesRemaining) == authRetriesRemaining <= 0

\* The catch handler of _request(options, authRetriesRemaining), run with
\* caller p's record r and the error caught.
RequestCatch(p, r, error) ==
    IF error.statusCode # 401
    THEN /\ req' = [req EXCEPT ![p] = WorkerCatch(r, error)]
         /\ UNCHANGED <<accessTokenPromise, logins>>
    ELSE IF AuthRetriesUsedUp(r.authRetriesRemaining)
    THEN /\ req' = [req EXCEPT ![p] = WorkerCatch(r, AuthRetriesExceededError)]
         /\ UNCHANGED <<accessTokenPromise, logins>>
    ELSE \* _renewAccessToken(); _request(options, --authRetriesRemaining)
         /\ Len(logins) < MaxLogins
         /\ logins' = Append(logins, [st |-> "pending", err |-> NoError])
         /\ accessTokenPromise' = Len(logins) + 1
         /\ req' = [req EXCEPT ![p] =
                      [r EXCEPT !.pc = "awaitToken",
                                !.authRetriesRemaining = r.authRetriesRemaining - 1,
                                !.chainRenewals = r.chainRenewals + 1,
                                !.waitingOn = Len(logins) + 1]]

\* _getAccessToken renewing also while the cached login is still pending.
NeedsLoginWhilePending(cachedPromise) ==
    cachedPromise = 0 \/ logins[cachedPromise].st = "pending"

\* _getAccessToken renewing on every call.
NeedsLoginAlways(cachedPromise) == TRUE

\* _getAccessToken(): no promise is cached.
NeedsLogin(cachedPromise) == cachedPromise = 0

\* The timer of the worker fires: promiseProvider() calls _request(options),
\* which calls _getAccessToken() and waits for the promise it returns.
TimerFires(p) ==
    /\ req[p].pc = "timer"
    /\ LET r == [req[p] EXCEPT !.pc = "awaitToken",
                               !.authRetriesRemaining = AuthRetriesDefault,
                               !.chainCalls = 0, !.chainRenewals = 0,
                               !.chainLogin401 = 0]
       IN IF NeedsLogin(accessTokenPromise)
          THEN /\ Len(logins) < MaxLogins
               /\ logins' = Append(logins, [st |-> "pending", err |-> NoError])
               /\ accessTokenPromise' = Len(logins) + 1
               /\ req' = [req EXCEPT ![p] = [r EXCEPT !.waitingOn = Len(logins) + 1]]
          ELSE /\ req' = [req EXCEPT ![p] = [r EXCEPT !.waitingOn = accessTokenPromise]]
               /\ UNCHANGED <<accessTokenPromise, logins>>
    /\ UNCHANGED <<requestRetriesMaxOpt, instanceUrl, seen401>>

\* The login request k answers: the then-callback of _renewAccessToken stores
\* the instance URL and the promise resolves to the access token.
LoginResolves(k) ==
    /\ k \in 1..Len(logins)
    /\ logins[k].st = "pending"
    /\ logins' = [logins EXCEPT ![k].st = "resolved"]
    /\ instanceUrl' = k
    /\ UNCHANGED <<requestRetriesMaxOpt, accessTokenPromise, req, seen401>>

LoginRejects(k, error) ==
    /\ k \in 1..Len(logins)
    /\ logins[k].st = "pending"
    /\ logins' = [logins EXCEPT ![k] = [st |-> "rejected", err |-> error]]
    /\ seen401' = (seen401 \/ error.statusCode = 401)
    /\ UNCHANGED <<requestRetriesMaxOpt, accessTokenPromise, instanceUrl, req>>

\* The then-callback of _request(): the request is sent with the token the
\* awaited promise resolved to and the instance URL cached at that moment.
TokenThen(p) ==
    /\ req[p].pc = "awaitToken"
    /\ logins[req[p].waitingOn].st = "resolved"
    /\ req' = [req EXCEPT ![p] =
                 [req[p] EXCEPT !.pc = "awaitTransport",
                                !.sentTok = req[p].waitingOn,
                                !.sentUrl = instanceUrl,
                                !.calls = req[p].calls + 1,
                                !.chainCalls = req[p].chainCalls + 1]]
    /\ UNCHANGED <<requestRetriesMaxOpt, accessTokenPromise, instanceUrl, logins,
                   seen401>>

\* The awaited token promise is rejected: the catch handler of _request()
\* runs with the login's error.
TokenCatch(p) ==
    /\ req[p].pc = "awaitToken"
    /\ logins[req[p].waitingOn].st = "rejected"
    /\ LET error == logins[req[p].waitingOn].err
           r == IF error.statusCode = 401
                THEN [req[p] EXCEPT !.chainLogin401 = req[p].chainLogin401 + 1]
                ELSE req[p]
       IN RequestCatch(p, r, error)
    /\ UNCHANGED <<requestRetriesMaxOpt, instanceUrl, seen401>>

\* The transport answers with the response body: the worker resolves.
TransportResolves(p) ==
    /\ req[p].pc = "awaitTransport"
    /\ req' = [req EXCEPT ![p].pc = "resolved"]
    /\ UNCHANGED <<requestRetriesMaxOpt, accessTokenPromise, instanceUrl, logins,
                   seen401>>

\* The transport answers with a failure: the catch handler of _request().
TransportRejects(p, error) ==
    /\ req[p].pc = "awaitTransport"
    /\ RequestCatch(p, req[p], error)
    /\ seen401' = (seen401 \/ error.statusCode = 401)
    /\ UNCHANGED <<requestRetriesMaxOpt, instanceUrl>>



(***************************************************************************)
(* JavaScript values and objects                                           *)
(*                                                                         *)
(* A property name is the sequence of its dot-separated segments, so       *)
(* 'Owner__r.Name' is <<"Owner__r", "Name">>. An object is the sequence of *)
(* its [k, v] entries in insertion order, which is the order of            *)
(* Object.keys and for..in. A text is a sequence of strings, read as their *)
(* concatenation. A value is a record tagged with its typeof; the field    *)
(* that holds its content is named after the type.                         *)
(***************************************************************************)
Undefined == [t |-> "undefined"]
Str(chars) == [t |-> "string", chars |-> chars]
Num(n) == [t |-> "number", n |-> n]
Arr(items) == [t |-> "array", items |-> items]
ObjV(obj) == [t |-> "object", obj |-> obj]

ObjKeys(obj) == [i \in 1..Len(obj) |-> obj[i].k]
ObjHas(obj, key) == \E i \in 1..Len(obj) : obj[i].k = key
ObjGet(obj, key) ==
    IF ObjHas(obj, key)
    THEN obj[CHOOSE i \in 1..Len(obj) : obj[i].k = key].v
    ELSE Undefined
\* obj[key] = value: an existing key keeps its place, a new one goes last.
ObjSet(obj, key, value) ==
    IF ObjHas(obj, key)
    THEN [i \in 1..Len(obj) |->
            IF obj[i].k = key THEN [k |-> key, v |-> value] ELSE obj[i]]
    ELSE Append(obj, [k |-> key, v |-> value])
\* ObjDelete leaving the property in place.
ObjKeep(obj, key) == obj

ObjDelete(obj, key) == SelectSeq(obj, LAMBDA e : e.k # key)

RECURSIVE JoinText(_, _)
\* texts.join(separator)
JoinText(texts, separator) ==
    IF texts = <<>> THEN <<>>
    ELSE IF Len(texts) = 1 THEN texts[1]
    ELSE texts[1] \o <<separator>> \o JoinText(Tail(texts), separator)

\* The text of a property name.
NameText(name) == JoinText([i \in 1..Len(name) |-> <<name[i]>>], ".")

\* The property names of the model in the order of JavaScript's default
\* sort (UTF-16 code units: capitals first).
SortOrder ==
    << <<"Id">>, <<"Name">>, <<"Owner__c">>, <<"Owner__r", "Name">>,
       <<"Unmapped__c">>, <<"attributes">>, <<"extra">>, <<"id">>,
       <<"name">>, <<"owner">>, <<"streetAddress">> >>
Rank(name) == CHOOSE i \in 1..Len(SortOrder) : SortOrder[i] = name

RECURSIVE SortNames(_)
\* names.sort() for distinct names: selection of the least name first.
SortNames(names) ==
    IF names = <<>> THEN <<>>
    ELSE LET least == CHOOSE i \in 1..Len(names) :
                          \A j \in 1..Len(names) : Rank(names[i]) <= Rank(names[j])
         IN <<names[least]>> \o
            SortNames([j \in 1..(Len(names) - 1) |->
                          IF j < least THEN names[j] ELSE names[j + 1]])

(***************************************************************************)
(* flatten and convertPropertyNames                                        *)
(***************************************************************************)
RECURSIVE flatInto(_, _, _), flatten(_), flattenItems(_)
\* flat(object, { safe: true }): nested objects with keys are spread under
\* dot-delimited names, arrays and everything else are kept.
flatInto(output, prefix, obj) ==
    IF obj = <<>> THEN output
    ELSE LET e == Head(obj)
             newKey == prefix \o e.k
         IN flatInto(IF e.v.t = "object" /\ e.v.obj # <<>>
                     THEN flatInto(output, newKey, e.v.obj)
                     ELSE ObjSet(output, newKey, e.v),
                     prefix, Tail(obj))

flattenItems(items) ==
    [i \in 1..Len(items) |->
        IF items[i].t = "object" THEN ObjV(flatten(items[i].obj)) ELSE items[i]]

flatten(object) ==
    LET flattenedObject == flatInto(<<>>, <<>>, object)
    IN [i \in 1..Len(flattenedObject) |->
          IF flattenedObject[i].v.t = "array"
          THEN [k |-> flattenedObject[i].k,
                v |-> Arr(flattenItems(flattenedObject[i].v.items))]
          ELSE flattenedObject[i]]

RECURSIVE renameKeys(_, _, _)
\* The loop of convertPropertyNames over Object.keys(obj), taken before the
\* loop starts; propertyNameMap maps a name to a name.
renameKeys(obj, keys, propertyNameMap) ==
    IF keys = <<>> THEN obj
    ELSE LET propertyName == Head(keys)
             target == ObjGet(propertyNameMap, propertyName)
         IN renameKeys(IF ObjHas(propertyNameMap, propertyName)
                          /\ target # propertyName
                       THEN ObjDelete(ObjSet(obj, target, ObjGet(obj, propertyName)),
                                      propertyName)
                       ELSE obj,
                       Tail(keys), propertyNameMap)

\* convertPropertyNames(obj, propertyNameMap) for an object that is not an
\* array, capitalizeOthers being left at false as SObject leaves it.
convertPropertyNames(obj, propertyNameMap) ==
    LET flat == flatten(obj)
    IN renameKeys(flat, ObjKeys(flat), propertyNameMap)

(***************************************************************************)
(* getBasicQueryComparison and LeftInnerJoinRelationship                   *)
(***************************************************************************)
\* value.replace('\'', '\\\''): a string pattern replaces the first match.
EscapeQuote(chars) ==
    IF \E i \in 1..Len(chars) : chars[i] = "'"
    THEN LET first == CHOOSE i \in 1..Len(chars) :
                          /\ chars[i] = "'"
                          /\ \A j \in 1..(i - 1) : chars[j] # "'"
         IN SubSeq(chars, 1, first - 1) \o <<"\\", "'">>
            \o SubSeq(chars, first + 1, Len(chars))
    ELSE chars

RECURSIVE getBasicQueryComparison(_, _)
getBasicQueryComparison(property, value) ==
    IF value.t = "string"
    THEN NameText(property) \o <<" = '">> \o EscapeQuote(value.chars) \o <<"'">>
    ELSE IF value.t = "array"
    THEN <<"(">> \o JoinText([i \in 1..Len(value.items) |->
                                 getBasicQueryComparison(property, value.items[i])],
                             " OR ") \o <<")">>
    ELSE IF value.t = "number"
    THEN NameText(property) \o <<" = ", ToString(value.n)>>
    ELSE NameText(property) \o <<" = ", value.t>>

\* relationship.createQueryComparison(value)
createQueryComparison(relationship, value) ==
    NameText(relationship.property) \o <<" IN (SELECT ">>
    \o NameText(relationship.relatedObject.comparisonProperty) \o <<" FROM ">>
    \o <<relationship.relatedObject.name>> \o <<" WHERE ">>
    \o getBasicQueryComparison(relationship.relatedObject.queryValueProperty, value)
    \o <<")">>

(***************************************************************************)
(* SObject: the conversions and the query statement                        *)
(***************************************************************************)
\* A property map entry is a plain name or a LeftInnerJoinRelationship.
Basic(name) == [kind |-> "string", name |-> name]
IsString(entry) == entry.kind = "string"

\* getReversePropertyMap(): the string-valued entries, inverted.
RECURSIVE reverseInto(_, _)
reverseInto(reverseMap, thisPropertyMap) ==
    IF thisPropertyMap = <<>> THEN reverseMap
    ELSE reverseInto(IF IsString(Head(thisPropertyMap).v)
                     THEN ObjSet(reverseMap, Head(thisPropertyMap).v.name,
                                 Head(thisPropertyMap).k)
                     ELSE reverseMap,
                     Tail(thisPropertyMap))
getReversePropertyMap(thisPropertyMap) == reverseInto(<<>>, thisPropertyMap)

getPropertyNames(thisPropertyMap) == SortNames(ObjKeys(thisPropertyMap))
getSalesForcePropertyNames(thisPropertyMap) ==
    SortNames(ObjKeys(getReversePropertyMap(thisPropertyMap)))

\* The property map after the loop of convertToSalesForceFormat that deletes
\* every entry whose value is not a string: the map is the object that
\* getPropertyMap() resolves to, this._propertyMap itself.
DeleteNonStrings(thisPropertyMap) == SelectSeq(thisPropertyMap, LAMBDA e : IsString(e.v))

\* The name-to-name map handed to convertPropertyNames.
NameMap(thisPropertyMap) ==
    [i \in 1..Len(thisPropertyMap) |->
        [k |-> thisPropertyMap[i].k, v |-> thisPropertyMap[i].v.name]]

\* dropProperties dropping nothing.
dropNothing(convertedEntity, keys, reversePropertyMap, includeNestedProperties) == convertedEntity

RECURSIVE dropProperties(_, _, _, _)
\* The second loop of convertToSalesForceFormat, over Object.keys(convertedEntity).
dropProperties(convertedEntity, keys, reversePropertyMap, includeNestedProperties) ==
    IF keys = <<>> THEN convertedEntity
    ELSE LET propertyName == Head(keys)
             isNestedProperty == Len(propertyName) > 1
             value == ObjGet(convertedEntity, propertyName)
         IN dropProperties(
                IF \/ ~ObjHas(reversePropertyMap, propertyName)
                   \/ value = Undefined
                   \/ (isNestedProperty /\ ~includeNestedProperties)
                THEN ObjDelete(convertedEntity, propertyName)
                ELSE convertedEntity,
                Tail(keys), reversePropertyMap, includeNestedProperties)

\* The entity convertToSalesForceFormat(entity, options) resolves to.
convertToSalesForceFormat(thisPropertyMap, objectNameText, entity, includeAttributesProperty, includeNestedProperties) ==
    LET reversePropertyMap == getReversePropertyMap(thisPropertyMap)
        stringMap == NameMap(DeleteNonStrings(thisPropertyMap))
        renamed == convertPropertyNames(entity, stringMap)
        convertedEntity == dropProperties(renamed, ObjKeys(renamed),
                                          reversePropertyMap, includeNestedProperties)
    IN IF includeAttributesProperty
       THEN ObjSet(convertedEntity, <<"attributes">>,
                   ObjV(<< [k |-> <<"type">>, v |-> Str(<<objectNameText>>)] >>))
       ELSE convertedEntity

\* _.pick(object, names): the named properties the object has, in the order
\* of names.
Pick(obj, names) ==
    LET present == SelectSeq(names, LAMBDA n : ObjHas(obj, n))
    IN [i \in 1..Len(present) |-> [k |-> present[i], v |-> ObjGet(obj, present[i])]]

convertFromSalesForceFormat(thisPropertyMap, entity) ==
    Pick(convertPropertyNames(entity, getReversePropertyMap(thisPropertyMap)),
         getPropertyNames(thisPropertyMap))

convertArrayFromSalesForceFormat(thisPropertyMap, entities) ==
    [i \in 1..Len(entities) |-> convertFromSalesForceFormat(thisPropertyMap, entities[i])]

\* _getBasicQueryComparisons without the sort of the keys.
_getBasicQueryComparisonsUnsorted(thisPropertyMap, objectNameText, options) ==
    LET basicQueryProps == convertToSalesForceFormat(thisPropertyMap, objectNameText,
                                                     options, FALSE, TRUE)
    IN [i \in 1..Len(basicQueryProps) |->
          getBasicQueryComparison(basicQueryProps[i].k, basicQueryProps[i].v)]

\* _getBasicQueryComparisons(options)
_getBasicQueryComparisons(thisPropertyMap, objectNameText, options) ==
    LET basicQueryProps == convertToSalesForceFormat(thisPropertyMap, objectNameText,
                                                     options, FALSE, TRUE)
        keys == SortNames(ObjKeys(basicQueryProps))
    IN [i \in 1..Len(keys) |->
          getBasicQueryComparison(keys[i], ObjGet(basicQueryProps, keys[i]))]

\* _getComplexQueryComparisons(options): the reduce over Object.keys(options).
_getComplexQueryComparisons(thisPropertyMap, options) ==
    LET joins == SelectSeq(options,
                    LAMBDA e : ObjHas(thisPropertyMap, e.k)
                               /\ ~IsString(ObjGet(thisPropertyMap, e.k)))
    IN [i \in 1..Len(joins) |->
          createQueryComparison(ObjGet(thisPropertyMap, joins[i].k), joins[i].v)]

\* _buildQueryPredicate(options); options = <<>> stands for no options and
\* for an object without keys alike. The callback of
\* _getComplexQueryComparisons reads the property map one promise hop after
\* the call, before the callback of convertToSalesForceFormat (behind a
\* Promise.all) deletes from it: both work on the map as it is at the call.
_buildQueryPredicate(thisPropertyMap, objectNameText, options) ==
    IF options = <<>> THEN <<>>
    ELSE <<"WHERE ">>
         \o JoinText(_getBasicQueryComparisons(thisPropertyMap, objectNameText, options)
                     \o _getComplexQueryComparisons(thisPropertyMap, options),
                     " AND ")

buildQueryStatement(thisPropertyMap, objectNameText, options) ==
    <<"SELECT ">>
    \o JoinText([i \in 1..Len(getSalesForcePropertyNames(thisPropertyMap)) |->
                   NameText(getSalesForcePropertyNames(thisPropertyMap)[i])], ", ")
    \o <<" FROM ", objectNameText, " ">>
    \o _buildQueryPredicate(thisPropertyMap, objectNameText, options)
    \o <<" ORDER BY CreatedDate DESC">>

(***************************************************************************)
(* SObject: the operations                                                 *)
(***************************************************************************)
\* String(this.objectName): the getter returns (does not throw) a
\* NotImplementedError when no name was given.
ObjectNameText ==
    IF objectNameOpt = {} THEN "NotImplementedError"
    ELSE CHOOSE name \in objectNameOpt : TRUE

DataServicesUrlPath == <<"services/data/v", DEFAULT_API_VERSION, "/">>
ObjectUrlPath == DataServicesUrlPath \o <<"sobjects/", ObjectNameText, "/">>
QueryUrlPath == DataServicesUrlPath \o <<"query">>

\* String(value) of a scalar.
ValueText(value) ==
    IF value.t = "string" THEN value.chars
    ELSE IF value.t = "number" THEN <<ToString(value.n)>>
    ELSE <<value.t>>

RECURSIVE JsonValue(_), JsonObject(_)
\* JSON.stringify: properties whose value is undefined are left out.
JsonValue(value) ==
    IF value.t = "string" THEN <<"\"">> \o value.chars \o <<"\"">>
    ELSE IF value.t = "number" THEN <<ToString(value.n)>>
    ELSE IF value.t = "array"
    THEN <<"[">> \o JoinText([i \in 1..Len(value.items) |->
                                 JsonValue(value.items[i])], ",") \o <<"]">>
    ELSE IF value.t = "object" THEN JsonObject(value.obj)
    ELSE <<"null">>
JsonObject(obj) ==
    LET defined == SelectSeq(obj, LAMBDA e : e.v # Undefined)
    IN <<"{">> \o JoinText([i \in 1..Len(defined) |->
                              <<"\"">> \o NameText(defined[i].k) \o <<"\":">>
                              \o JsonValue(defined[i].v)], ",") \o <<"}">>

\* parameter-validator: a parameter is there when the object holds a value
\* for it.
\* HasParam without the test.
HasParamAlways(params, name) == TRUE

HasParam(params, name) == ObjHas(params, name) /\ ObjGet(params, name) # Undefined

NoSObjError == [name |-> "none", message |-> <<>>, statusCode |-> 0]
ParameterValidationError(text) ==
    [name |-> "ParameterValidationError", message |-> text, statusCode |-> 0]
ResourceNotFoundError(text) ==
    [name |-> "ResourceNotFoundError", message |-> text, statusCode |-> 0]

\* The failures connection.request can reject with.
ConnectionErrors ==
    {[name |-> "Error", message |-> <<"failed login">>, statusCode |-> 401],
     [name |-> "StatusCodeError", message |-> <<"500 - boom">>, statusCode |-> 500]}

JsonTrue == [t |-> "boolean", b |-> TRUE]
Request(url, method, json, qs) ==
    [url |-> url, method |-> method, json |-> json, qs |-> qs]

\* The data _updateAndThrow(error, data) hands to logger.error under the
\* text 'Error in Salesforce request'; the error itself is rethrown as is.
_updateAndThrow(error, method) ==
    [text |-> "Error in Salesforce request", method |-> method,
     sobjectType |-> ObjectNameText, message |-> error.message]

\* thrownByHook with the method appended to the message of the error.
thrownWithMethod(error, method) == [error EXCEPT !.message = @ \o <<method>>]

\* _updateAndThrow(error, data): throw error.
thrownByHook(error, method) == error

RECURSIVE throughHooks(_, _)
\* The error as it leaves the last of the catch handlers `hooks`.
throughHooks(error, hooks) ==
    IF hooks = <<>> THEN error
    ELSE throughHooks(thrownByHook(error, Head(hooks)), Tail(hooks))

\* The catch handlers a failure passes on its way out of the operation:
\* query's own, then that of get when get made the query.
QueryFailureHooks(method) == IF method = "get" THEN <<"query", "get">> ELSE <<method>>

\* remainingRecords without the records of the earlier pages.
remainingRecordsLastOnly(pages, last) == last

RECURSIVE remainingRecords(_, _)
\* What the chain of _getRemainingQueryRecords calls resolves to: each page
\* resolves to records.concat(remainingRecords).
remainingRecords(pages, last) ==
    IF pages = <<>> THEN last
    ELSE Head(pages) \o remainingRecords(Tail(pages), last)

\* FirstResult picking the last result instead.
LastResult(results) == results[Len(results)]

\* get(): return results[0].
FirstResult(results) == results[1]

\* HasMorePages going by the next URL alone.
HasMorePagesByUrl(response) == response.nextRecordsUrl # <<>>

\* The test of _getRemainingQueryRecords for a further page.
HasMorePages(response) == response.done = "false" /\ response.nextRecordsUrl # <<>>

(***************************************************************************)
(* The inputs of the model.                                                *)
(***************************************************************************)
StreetAddressJoin ==
    [kind |-> "join", property |-> <<"Owner__c">>,
     relatedObject |-> [name |-> "Address__c",
                        comparisonProperty |-> <<"Person__c">>,
                        queryValueProperty |-> <<"StreetAddress__c">>]]

Entry(key, value) == [k |-> key, v |-> value]

CtorPropertyMaps ==
    { << Entry(<<"id">>, Basic(<<"Id">>)), Entry(<<"name">>, Basic(<<"Name">>)) >>,
      << Entry(<<"id">>, Basic(<<"Id">>)), Entry(<<"name">>, Basic(<<"Name">>)),
         Entry(<<"streetAddress">>, StreetAddressJoin) >>,
      << Entry(<<"streetAddress">>, StreetAddressJoin),
         Entry(<<"owner">>, Basic(<<"Owner__r", "Name">>)),
         Entry(<<"id">>, Basic(<<"Id">>)) >> }

OptionsSet ==
    { <<>>,
      << Entry(<<"id">>, Str(<<"a">>)) >>,
      << Entry(<<"name">>, Str(<<"n">>)), Entry(<<"id">>, Num(7)) >>,
      << Entry(<<"streetAddress">>, Str(<<"x">>)) >>,
      << Entry(<<"streetAddress">>, Str(<<"x">>)), Entry(<<"id">>, Str(<<"a">>)) >>,
      << Entry(<<"extra">>, Num(1)) >>,
      << Entry(<<"id">>, Undefined), Entry(<<"extra">>, Num(1)) >> }

EntitySet ==
    { << Entry(<<"id">>, Str(<<"a">>)) >>,
      << Entry(<<"id">>, Str(<<"a">>)), Entry(<<"name">>, Str(<<"n">>)) >>,
      << Entry(<<"name">>, Str(<<"n">>)), Entry(<<"extra">>, Num(1)) >>,
      << Entry(<<"id">>, Undefined), Entry(<<"name">>, Str(<<"n">>)) >>,
      << Entry(<<"owner">>, Str(<<"o">>)), Entry(<<"id">>, Num(7)) >> }

RemoteA == << Entry(<<"Id">>, Str(<<"a">>)), Entry(<<"Name">>, Str(<<"n">>)) >>
RemoteB ==
    << Entry(<<"Id">>, Str(<<"b">>)),
       Entry(<<"Owner__r">>, ObjV(<< Entry(<<"Name">>, Str(<<"o">>)) >>)),
       Entry(<<"Unmapped__c">>, Num(1)) >>

PageRecords == { <<>>, <<RemoteA>>, <<RemoteB, RemoteA>> }

QueryResponses ==
    [records : PageRecords, done : {"true", "false", "undefined"},
     nextRecordsUrl : {<<>>, <<"/next1">>, <<"/next2">>}]

InsertResponses ==
    { << Entry(<<"id">>, Str(<<"new">>)), Entry(<<"success">>, Num(1)) >>, <<>> }

(***************************************************************************)
(* The SObject state machine: one operation at a time, each settled and    *)
(* seen by its caller before the next is called.                           *)
(***************************************************************************)
InitSObjIdle ==
    /\ objectNameOpt = {}
    /\ ctorPropertyMap = <<>>
    /\ propertyMap = <<>>
    /\ opPc = "idle"
    /\ opMethod = "none"
    /\ opArg = <<>>
    /\ opPropertyMap = <<>>
    /\ opSent = <<>>
    /\ opResponses = <<>>
    /\ opRaw = <<>>
    /\ opValue = <<>>
    /\ opError = NoSObjError
    /\ logged = <<>>

InitFnIdle ==
    /\ fnName = "none"
    /\ fnArgs = <<>>
    /\ fnResult = <<>>

InitSObjVars ==
    /\ objectNameOpt \in {{}, {"Pet__c"}}
    /\ ctorPropertyMap \in CtorPropertyMaps
    /\ propertyMap = ctorPropertyMap
    /\ opPc = "idle"
    /\ opMethod = "none"
    /\ opArg = <<>>
    /\ opPropertyMap = <<>>
    /\ opSent = <<>>
    /\ opResponses = <<>>
    /\ opRaw = <<>>
    /\ opValue = <<>>
    /\ opError = NoSObjError
    /\ logged = <<>>

Callable == opPc = "idle"

\* A call of `method` with `arg` that settles without waiting.
Resolve(method, arg, value) ==
    /\ opPc' = "resolved" /\ opMethod' = method /\ opArg' = arg
    /\ opPropertyMap' = propertyMap
    /\ opSent' = <<>> /\ opResponses' = <<>> /\ opRaw' = <<>>
    /\ opValue' = value /\ opError' = NoSObjError /\ logged' = <<>>

Reject(method, arg, error) ==
    /\ opPc' = "rejected" /\ opMethod' = method /\ opArg' = arg
    /\ opPropertyMap' = propertyMap
    /\ opSent' = <<>> /\ opResponses' = <<>> /\ opRaw' = <<>>
    /\ opValue' = <<>> /\ opError' = thrownByHook(error, method)
    /\ logged' = <<_updateAndThrow(error, method)>>

\* A call of `method` with `arg` that passes a request to connection.request
\* and waits for it.
Send(method, arg, sentRequest) ==
    /\ opPc' = "waiting" /\ opMethod' = method /\ opArg' = arg
    /\ opPropertyMap' = propertyMap
    /\ opSent' = <<sentRequest>> /\ opResponses' = <<>> /\ opRaw' = <<>>
    /\ opValue' = <<>> /\ opError' = NoSObjError /\ logged' = <<>>

\* buildQueryStatement(options) as query() and get() run it, followed by
\* executeQuery(statement): the statement is built, the property map loses
\* its relationships when there are options, and the query is sent.
StartQuery(method, options) ==
    /\ Send(method, options,
            Request(QueryUrlPath, "get", JsonTrue,
                    buildQueryStatement(propertyMap, ObjectNameText, options)))
    /\ propertyMap' = IF options = <<>> THEN propertyMap
                      ELSE DeleteNonStrings(propertyMap)

get(options) ==
    /\ Callable
    /\ IF \E i \in 1..Len(propertyMap) : HasParam(options, propertyMap[i].k)
       THEN StartQuery("get", options)
       ELSE /\ Reject("get", options,
                      ParameterValidationError(<<"one of the property names">>))
            /\ UNCHANGED propertyMap
    /\ UNCHANGED <<objectNameOpt, ctorPropertyMap>>

query(options) ==
    /\ Callable
    /\ StartQuery("query", options)
    /\ UNCHANGED <<objectNameOpt, ctorPropertyMap>>

insert(entity) ==
    /\ Callable
    /\ Send("insert", entity,
            Request(ObjectUrlPath, "post",
                    ObjV(convertToSalesForceFormat(propertyMap, ObjectNameText,
                                                   entity, FALSE, FALSE)),
                    <<>>))
    /\ propertyMap' = DeleteNonStrings(propertyMap)
    /\ UNCHANGED <<objectNameOpt, ctorPropertyMap>>

update(entity) ==
    /\ Callable
    /\ IF ~HasParam(entity, <<"id">>)
       THEN /\ Reject("update", entity, ParameterValidationError(<<"id">>))
            /\ UNCHANGED propertyMap
       ELSE LET id == ObjGet(entity, <<"id">>)
                rest == ObjDelete(entity, <<"id">>)
                returnValue == << Entry(<<"id">>, id) >>
            IN IF rest = <<>>
               THEN Resolve("update", entity, returnValue) /\ UNCHANGED propertyMap
               ELSE /\ Send("update", entity,
                            Request(ObjectUrlPath \o ValueText(id), "patch",
                                    ObjV(convertToSalesForceFormat(
                                            propertyMap, ObjectNameText, rest,
                                            FALSE, FALSE)),
                                    <<>>))
                    /\ propertyMap' = DeleteNonStrings(propertyMap)
    /\ UNCHANGED <<objectNameOpt, ctorPropertyMap>>

delete(options) ==
    /\ Callable
    /\ IF ~HasParam(options, <<"id">>)
       THEN Reject("delete", options, ParameterValidationError(<<"id">>))
       ELSE Send("delete", options,
                 Request(ObjectUrlPath \o ValueText(ObjGet(options, <<"id">>)),
                         "delete", JsonTrue, <<>>))
    /\ UNCHANGED <<objectNameOpt, ctorPropertyMap, propertyMap>>

\* A direct call of convertToSalesForceFormat(entity, options).
callConvertToSalesForceFormat(entity, includeAttributesProperty, includeNestedProperties) ==
    /\ Callable
    /\ Resolve("convertToSalesForceFormat", entity,
               convertToSalesForceFormat(propertyMap, ObjectNameText, entity,
                                         includeAttributesProperty,
                                         includeNestedProperties))
    /\ propertyMap' = DeleteNonStrings(propertyMap)
    /\ UNCHANGED <<objectNameOpt, ctorPropertyMap>>

\* A direct call of buildQueryStatement(options).
callBuildQueryStatement(options) ==
    /\ Callable
    /\ Resolve("buildQueryStatement", options,
               buildQueryStatement(propertyMap, ObjectNameText, options))
    /\ propertyMap' = IF options = <<>> THEN propertyMap
                      ELSE DeleteNonStrings(propertyMap)
    /\ UNCHANGED <<objectNameOpt, ctorPropertyMap>>

\* connection.request resolves the query request, or a follow-up of it:
\* _getRemainingQueryRecords asks for the next page or ends the chain, and
\* query() converts the records; get() takes the first or fails.
QueryResponds(response) ==
    /\ opPc = "waiting"
    /\ opMethod \in {"get", "query"}
    /\ opResponses' = Append(opResponses, response)
    /\ IF HasMorePages(response)
       THEN /\ Len(opSent) < MaxPages
            /\ opSent' = Append(opSent, Request(response.nextRecordsUrl, "get",
                                                JsonTrue, <<>>))
            /\ UNCHANGED <<opPc, opRaw, opValue, opError, logged>>
       ELSE LET raw == remainingRecords(
                          [i \in 1..Len(opResponses) |-> opResponses[i].records],
                          response.records)
                results == convertArrayFromSalesForceFormat(propertyMap, raw)
            IN /\ opRaw' = raw
               /\ IF opMethod = "query"
                  THEN /\ opPc' = "resolved"
                       /\ opValue' = results
                       /\ UNCHANGED <<opError, logged>>
                  ELSE IF results # <<>>
                  THEN /\ opPc' = "resolved"
                       /\ opValue' = FirstResult(results)
                       /\ UNCHANGED <<opError, logged>>
                  ELSE LET error == ResourceNotFoundError(
                                       <<"No ", ObjectNameText,
                                         " found for the properties: ">>
                                       \o JsonObject(opArg))
                       IN /\ opPc' = "rejected"
                          /\ opError' = thrownByHook(error, "get")
                          /\ logged' = <<_updateAndThrow(error, "get")>>
                          /\ UNCHANGED opValue
               /\ UNCHANGED opSent
    /\ UNCHANGED <<objectNameOpt, ctorPropertyMap, propertyMap, opMethod, opArg,
                   opPropertyMap>>

\* connection.request resolves the request of insert, update or delete.
WriteResponds(response) ==
    /\ opPc = "waiting"
    /\ opMethod \in {"insert", "update", "delete"}
    /\ opResponses' = Append(opResponses, response)
    /\ opPc' = "resolved"
    /\ opValue' = IF opMethod = "insert" THEN Pick(response, << <<"id">> >>)
                  ELSE << Entry(<<"id">>, ObjGet(opArg, <<"id">>)) >>
    /\ UNCHANGED <<objectNameOpt, ctorPropertyMap, propertyMap, opMethod, opArg,
                   opPropertyMap, opSent, opRaw, opError, logged>>

\* connection.request rejects: the error passes the catch handlers of the
\* operation, each of which logs and rethrows it.
ConnectionRejects(error) ==
    /\ opPc = "waiting"
    /\ opPc' = "rejected"
    /\ opError' = throughHooks(error, QueryFailureHooks(opMethod))
    /\ logged' = [i \in 1..Len(QueryFailureHooks(opMethod)) |->
                    _updateAndThrow(
                        throughHooks(error, SubSeq(QueryFailureHooks(opMethod), 1, i - 1)),
                        QueryFailureHooks(opMethod)[i])]
    /\ UNCHANGED <<objectNameOpt, ctorPropertyMap, propertyMap, opMethod, opArg,
                   opPropertyMap, opSent, opResponses, opRaw, opValue>>

\* The caller has seen the operation settle and is ready for its next call.
CallerContinues ==
    /\ opPc \in {"resolved", "rejected"}
    /\ opPc' = "idle" /\ opMethod' = "none" /\ opArg' = <<>>
    /\ opPropertyMap' = <<>>
    /\ opSent' = <<>> /\ opResponses' = <<>> /\ opRaw' = <<>>
    /\ opValue' = <<>> /\ opError' = NoSObjError /\ logged' = <<>>
    /\ UNCHANGED <<objectNameOpt, ctorPropertyMap, propertyMap>>

NextSObj ==
    \/ \E options \in OptionsSet : get(options) /\ UNCHANGED <<varsRetry, varsConn, varsFn>>
    \/ \E options \in OptionsSet : query(options) /\ UNCHANGED <<varsRetry, varsConn, varsFn>>
    \/ \E entity \in EntitySet : insert(entity) /\ UNCHANGED <<varsRetry, varsConn, varsFn>>
    \/ \E entity \in EntitySet : update(entity) /\ UNCHANGED <<varsRetry, varsConn, varsFn>>
    \/ \E options \in OptionsSet : delete(options) /\ UNCHANGED <<varsRetry, varsConn, varsFn>>
    \/ \E entity \in EntitySet : \E attributes, nested \in BOOLEAN :
          callConvertToSalesForceFormat(entity, attributes, nested)
          /\ UNCHANGED <<varsRetry, varsConn, varsFn>>
    \/ \E options \in OptionsSet :
          callBuildQueryStatement(options) /\ UNCHANGED <<varsRetry, varsConn, varsFn>>
    \/ \E response \in QueryResponses :
          QueryResponds(response) /\ UNCHANGED <<varsRetry, varsConn, varsFn>>
    \/ \E response \in InsertResponses :
          WriteResponds(response) /\ UNCHANGED <<varsRetry, varsConn, varsFn>>
    \/ \E error \in ConnectionErrors :
          ConnectionRejects(error) /\ UNCHANGED <<varsRetry, varsConn, varsFn>>
    \/ CallerContinues /\ UNCHANGED <<varsRetry, varsConn, varsFn>>

(***************************************************************************)
(* The specifications of the two lower layers.                             *)
(***************************************************************************)
InitConnIdle ==
    /\ requestRetriesMaxOpt = {}
    /\ accessTokenPromise = 0
    /\ instanceUrl = 0
    /\ logins = <<>>
    /\ req = <<>>
    /\ seen401 = FALSE

InitRetry == InitRetryVars /\ InitConnIdle /\ InitSObjIdle /\ InitFnIdle

NextRetry ==
    \/ \E options \in PhOptionsSet :
            executeWithRetry(options) /\ UNCHANGED <<varsConn, varsSObj, varsFn>>
    \/ PhTimerFires /\ UNCHANGED <<varsConn, varsSObj, varsFn>>
    \/ PhOperationResolves /\ UNCHANGED <<varsConn, varsSObj, varsFn>>
    \/ \E kind \in PhErrorKinds :
          PhOperationRejects(kind) /\ UNCHANGED <<varsConn, varsSObj, varsFn>>

SpecRetry == InitRetry /\ [][NextRetry]_vars

SeqCallers == {1}

InitConnSeq ==
    InitRetryVars /\ InitConn(SeqCallers) /\ InitSObjIdle /\ InitFnIdle

NextConn ==
    \/ \E p \in SeqCallers : request(p) /\ UNCHANGED <<varsRetry, varsSObj, varsFn>>
    \/ \E p \in SeqCallers : TimerFires(p) /\ UNCHANGED <<varsRetry, varsSObj, varsFn>>
    \/ \E k \in 1..MaxLogins : LoginResolves(k) /\ UNCHANGED <<varsRetry, varsSObj, varsFn>>
    \/ \E k \in 1..MaxLogins : \E e \in LoginErrors :
            LoginRejects(k, e) /\ UNCHANGED <<varsRetry, varsSObj, varsFn>>
    \/ \E p \in SeqCallers : TokenThen(p) /\ UNCHANGED <<varsRetry, varsSObj, varsFn>>
    \/ \E p \in SeqCallers : TokenCatch(p) /\ UNCHANGED <<varsRetry, varsSObj, varsFn>>
    \/ \E p \in SeqCallers : TransportResolves(p) /\ UNCHANGED <<varsRetry, varsSObj, varsFn>>
    \/ \E p \in SeqCallers : \E e \in TransportErrors :
            TransportRejects(p, e) /\ UNCHANGED <<varsRetry, varsSObj, varsFn>>

SpecConn == InitConnSeq /\ [][NextConn]_vars

InitSObj == InitSObjVars /\ InitRetryVars /\ InitConnIdle /\ InitFnIdle

SpecSObj == InitSObj /\ [][NextSObj]_vars

\* Concurrent callers of one connection, each making one request(); the
\* connection retries at most once.
ParCallers == {1, 2}

ParTransportErrors ==
    {[statusCode |-> s, message |-> <<"other">>] : s \in {401, 404, 500}}

ParLoginErrors == {[statusCode |-> s, message |-> <<"other">>] : s \in {401, 500}}

InitConnPar ==
    /\ InitRetryVars
    /\ InitConn(ParCallers)
    /\ requestRetriesMaxOpt = {1}
    /\ InitSObjIdle
    /\ InitFnIdle

NextConnPar ==
    \/ \E p \in ParCallers :
          req[p].n = 0 /\ request(p) /\ UNCHANGED <<varsRetry, varsSObj, varsFn>>
    \/ \E p \in ParCallers : TimerFires(p) /\ UNCHANGED <<varsRetry, varsSObj, varsFn>>
    \/ \E k \in 1..MaxLogins : LoginResolves(k) /\ UNCHANGED <<varsRetry, varsSObj, varsFn>>
    \/ \E k \in 1..MaxLogins : \E error \in ParLoginErrors :
          LoginRejects(k, error) /\ UNCHANGED <<varsRetry, varsSObj, varsFn>>
    \/ \E p \in ParCallers : TokenThen(p) /\ UNCHANGED <<varsRetry, varsSObj, varsFn>>
    \/ \E p \in ParCallers : TokenCatch(p) /\ UNCHANGED <<varsRetry, varsSObj, varsFn>>
    \/ \E p \in ParCallers : TransportResolves(p) /\ UNCHANGED <<varsRetry, varsSObj, varsFn>>
    \/ \E p \in ParCallers : \E error \in ParTransportErrors :
          TransportRejects(p, error) /\ UNCHANGED <<varsRetry, varsSObj, varsFn>>

SpecConnPar == InitConnPar /\ [][NextConnPar]_vars

(***************************************************************************)
(* convertToSalesForceFormat on its own: one call on a fresh SObject named *)
(* Pet__c, for each property map, entity and pair of options.              *)
(***************************************************************************)
ConvertToEntities ==
    EntitySet \cup
    { <<>>,
      << Entry(<<"streetAddress">>, Str(<<"x">>)), Entry(<<"id">>, Str(<<"a">>)) >>,
      << Entry(<<"Name">>, Str(<<"N">>)), Entry(<<"id">>, Str(<<"a">>)) >>,
      << Entry(<<"Owner__r">>, ObjV(<< Entry(<<"Name">>, Str(<<"o">>)) >>)),
         Entry(<<"name">>, Str(<<"n">>)) >>,
      << Entry(<<"attributes">>, Num(1)), Entry(<<"name">>, Str(<<"n">>)) >>,
      << Entry(<<"name">>, Str(<<"n">>)), Entry(<<"Name">>, Str(<<"N">>)) >>,
      << Entry(<<"owner">>, Undefined), Entry(<<"name">>, Str(<<"n">>)) >>,
      << Entry(<<"extra">>, Arr(<< Str(<<"x">>) >>)), Entry(<<"owner">>, Num(7)) >> }

InitConvertTo ==
    /\ InitRetryVars /\ InitConnIdle /\ InitSObjIdle
    /\ fnName = "none"
    /\ fnArgs \in [propertyMap : CtorPropertyMaps, entity : ConvertToEntities,
                    includeAttributesProperty : BOOLEAN,
                    includeNestedProperties : BOOLEAN]
    /\ fnResult = <<>>

ApplyConvertToSalesForceFormat ==
    /\ fnName = "none"
    /\ fnName' = "convertToSalesForceFormat"
    /\ fnResult' = convertToSalesForceFormat(fnArgs.propertyMap, "Pet__c", fnArgs.entity,
                                             fnArgs.includeAttributesProperty,
                                             fnArgs.includeNestedProperties)
    /\ UNCHANGED <<fnArgs, varsRetry, varsConn, varsSObj>>

NextConvertTo == ApplyConvertToSalesForceFormat

SpecConvertTo == InitConvertTo /\ [][NextConvertTo]_vars

(***************************************************************************)
(* Claims                                                                  *)
(***************************************************************************)

\* The predicate of the call always returns true.
PhPredicateAlwaysTrue == phOptions.retryPredicate \in {"undefined", "always"}

\* C1: with a retry predicate that always returns true and maxRetries = N,
\* N >= 1, the returned promise rejects only after the operation has been
\* invoked exactly N + 1 times, every one of them failing.
C1_AttemptsBeforeReject ==
    \A N \in 1..(MaxRetriesOpt + 1) :
        (phOptions.maxRetries = {N} /\ PhPredicateAlwaysTrue) =>
            /\ phInvocations <= N + 1
            /\ (phPc = "rejected" =>
                    /\ phInvocations = N + 1
                    /\ Len(phErrors) = N + 1)

C1_Witness ==
    /\ phOptions.maxRetries = {MaxRetriesOpt}
    /\ phOptions.retryPredicate = "always"
    /\ phPc = "rejected"
    /\ phInvocations = MaxRetriesOpt + 1

\* error.message names one of the two transient server-side conditions.
TransientMessage(message) ==
    message # <<>> /\ (Includes(message, "UNABLE_TO_LOCK_ROW")
                       \/ Includes(message, "QUERY_TIMEOUT"))

C3_NotFoundNotRetried ==
    \A p \in DOMAIN req :
        req[p].err.statusCode \in {404, 410, 403} =>
            /\ req[p].pc = "rejected"
            /\ (req[p].chainRenewals = 0 => req[p].calls = 1)

\* C4: a failure with status 400 or 500 is retried if and only if its
\* message contains UNABLE_TO_LOCK_ROW or QUERY_TIMEOUT: with such a message
\* request() gives up only when no retry remains, with any other message it
\* gives up at once.
C4_TransientRetried ==
    \A p \in DOMAIN req :
        req[p].err.statusCode \in {400, 500} =>
            IF TransientMessage(req[p].err.message)
            THEN req[p].pc = "rejected" => req[p].currentRetry >= ConnMaxRetries
            ELSE req[p].pc = "rejected"

\* C5: a transport failure whose status is none of 400, 401, 403, 404, 410,
\* 500 (a missing status included) is retryable: request() gives up on it
\* only when no retry remains.
C5_OtherStatusesRetried ==
    \A p \in DOMAIN req :
        (/\ req[p].err \in TransportErrors
         /\ req[p].err.statusCode \notin {400, 401, 403, 404, 410, 500}
         /\ req[p].pc = "rejected")
            => req[p].currentRetry >= ConnMaxRetries

RECURSIVE RecordsInOrder(_)
\* The records of the pages received, first page first.
RecordsInOrder(responses) ==
    IF responses = <<>> THEN <<>>
    ELSE RecordsInOrder(SubSeq(responses, 1, Len(responses) - 1))
         \o responses[Len(responses)].records

\* C6: when query results span pages p1..pn, each page before the last one
\* not done and naming a next URL, exactly n requests are made: the first to
\* the query path with the query string, each following one to the URL the
\* page before it named; and the result holds the records of p1, then of p2,
\* ... then of pn, converted.
C6_PaginationConcatenates ==
    (opMethod \in {"query", "get"} /\ opPc = "resolved") =>
        LET n == Len(opResponses)
        IN /\ n >= 1
           /\ Len(opSent) = n
           /\ opSent[1].url = QueryUrlPath
           /\ opSent[1].method = "get"
           /\ opSent[1].qs = buildQueryStatement(opPropertyMap, ObjectNameText, opArg)
           /\ \A i \in 2..n : /\ opSent[i].url = opResponses[i - 1].nextRecordsUrl
                              /\ opSent[i].qs = <<>>
           /\ \A i \in 1..(n - 1) : /\ opResponses[i].done = "false"
                                    /\ opResponses[i].nextRecordsUrl # <<>>
           /\ opRaw = RecordsInOrder(opResponses)
           /\ opMethod = "query" =>
                  opValue = convertArrayFromSalesForceFormat(propertyMap, opRaw)

\* A query answered in three pages, the last one done, with records on the
\* first and on the last page.
C6_Witness ==
    /\ opMethod = "query" /\ opPc = "resolved"
    /\ Len(opResponses) = 3
    /\ opResponses[3].done = "true"
    /\ opResponses[1].records = <<RemoteB, RemoteA>>
    /\ opResponses[2].nextRecordsUrl # opResponses[1].nextRecordsUrl
    /\ opResponses[3].records = <<RemoteA>>
    /\ Len(opValue) = 3

\* C7: no operation of an SObject modifies its property map, which holds
\* after every operation the entries it was constructed with.
C7_PropertyMapNeverModified == propertyMap = ctorPropertyMap

\* C8: an operation that fails has run the failure hook exactly once on its
\* way out, also when the failure came out of the query that get() made.
C8_FailureHookOnce == opPc = "rejected" => Len(logged) = 1

\* text holds part as a run of consecutive pieces.
ContainsText(text, part) ==
    \E i \in 1..(Len(text) - Len(part) + 1) :
        SubSeq(text, i, i + Len(part) - 1) = part

\* options holds a value for a property of the property map.
NamesProperty(options, map) ==
    \E i \in 1..Len(map) : \E j \in 1..Len(options) :
        options[j].k = map[i].k /\ options[j].v # Undefined

C10_ValidationPrecedesNetwork ==
    (\/ opMethod = "get" /\ ~NamesProperty(opArg, opPropertyMap)
     \/ /\ opMethod \in {"update", "delete"}
        /\ ~NamesProperty(opArg, << Entry(<<"id">>, Basic(<<"Id">>)) >>)) =>
        /\ opPc = "rejected"
        /\ opError.name = "ParameterValidationError"
        /\ opSent = <<>>
        /\ opResponses = <<>>

\* A get naming only a property the map does not have, rejected.
C10_WitnessGet ==
    /\ opMethod = "get" /\ opPc = "rejected"
    /\ opArg = << Entry(<<"extra">>, Num(1)) >>
    /\ opError.name = "ParameterValidationError"
    /\ opSent = <<>>

\* C11: update(entity) with an id passes a request to the connection if and
\* only if entity has a property other than id: update({id}) resolves to
\* {id} with no request; otherwise exactly one PATCH goes to the object URL
\* followed by the id, its body the converted entity without id, and the
\* result is {id}.
C11_UpdateShortCircuit ==
    (opMethod = "update" /\ NamesProperty(opArg, << Entry(<<"id">>, Undefined) >>)) =>
        LET id == opArg[CHOOSE j \in 1..Len(opArg) : opArg[j].k = <<"id">>].v
            others == SelectSeq(opArg, LAMBDA e : e.k # <<"id">>)
        IN IF others = <<>>
           THEN /\ opPc = "resolved"
                /\ opSent = <<>>
                /\ opValue = << Entry(<<"id">>, id) >>
           ELSE /\ Len(opSent) = 1
                /\ opSent[1].method = "patch"
                /\ opSent[1].url = ObjectUrlPath \o ValueText(id)
                /\ opSent[1].json =
                       ObjV(convertToSalesForceFormat(opPropertyMap, ObjectNameText,
                                                      others, FALSE, FALSE))
                /\ \A i \in 1..Len(opSent[1].json.obj) :
                       opSent[1].json.obj[i].k \notin {<<"id">>, <<"Id">>}
                /\ opPc = "resolved" => opValue = << Entry(<<"id">>, id) >>
                /\ opPc = "rejected" => opError \in ConnectionErrors

\* An update of a name, sent as one PATCH and resolved.
C11_Witness ==
    /\ opMethod = "update" /\ opPc = "resolved"
    /\ opArg = << Entry(<<"id">>, Str(<<"a">>)), Entry(<<"name">>, Str(<<"n">>)) >>
    /\ Len(opSent) = 1
    /\ opSent[1].json = ObjV(<< Entry(<<"Name">>, Str(<<"n">>)) >>)
    /\ opValue = << Entry(<<"id">>, Str(<<"a">>)) >>

\* C12: for an SObject without objectName, every query or CRUD call that
\* passes its validation (buildQueryStatement, query, get, insert, update
\* with a property besides id, delete) fails with a NotImplementedError and
\* passes no request to the connection.
C12_NoObjectNameFails ==
    (/\ objectNameOpt = {}
     /\ \/ opMethod \in {"buildQueryStatement", "query", "insert"}
        \/ opMethod = "get" /\ NamesProperty(opArg, opPropertyMap)
        \/ /\ opMethod = "delete"
           /\ NamesProperty(opArg, << Entry(<<"id">>, Undefined) >>)
        \/ /\ opMethod = "update"
           /\ NamesProperty(opArg, << Entry(<<"id">>, Undefined) >>)
           /\ \E j \in 1..Len(opArg) : opArg[j].k # <<"id">>) =>
        /\ opPc = "rejected"
        /\ opError.name = "NotImplementedError"
        /\ opSent = <<>>

\* C13: in any sequence of request() calls in which the first login
\* succeeded and no response was a 401, the login endpoint has been called
\* exactly once, and every request sent carried the access token and the
\* instance URL of that login.
C13_LoginOnceWithout401 ==
    (Len(logins) >= 1 /\ logins[1].st = "resolved" /\ ~seen401) =>
        /\ Len(logins) = 1
        /\ accessTokenPromise = 1
        /\ \A p \in DOMAIN req :
               req[p].sentTok # 0 => req[p].sentTok = 1 /\ req[p].sentUrl = 1

\* The second request() of a caller, sent with the token and the instance
\* URL of the one login made so far.
C13_Witness ==
    /\ ~seen401
    /\ Len(logins) = 1
    /\ \E p \in DOMAIN req :
          /\ req[p].n = 2
          /\ req[p].pc = "awaitTransport"
          /\ req[p].err = NoError
          /\ req[p].sentTok = 1
          /\ req[p].sentUrl = 1

\* C14: when several request() calls are started at the same time on a
\* connection that has no credential cached, one login request is issued,
\* every call waits for that login and sends its request with the token of
\* it; as long as no response is a 401 no second login is started.
C14_OneLoginForConcurrentCalls ==
    ~seen401 =>
        /\ Len(logins) <= 1
        /\ \A p \in DOMAIN req :
              /\ req[p].pc = "awaitToken" =>
                    /\ Len(logins) = 1
                    /\ accessTokenPromise = 1
                    /\ req[p].waitingOn = 1
              /\ req[p].pc = "awaitTransport" =>
                    /\ logins[1].st = "resolved"
                    /\ req[p].sentTok = 1
                    /\ req[p].sentUrl = 1

\* Two calls waiting for the one login, which has not answered yet.
C14_Witness ==
    /\ Len(logins) = 1
    /\ logins[1].st = "pending"
    /\ \A p \in ParCallers : req[p].pc = "awaitToken" /\ req[p].waitingOn = 1

\* C15: one request() call re-runs a failing request at most requestRetriesMax
\* times (8 when the option is omitted); with requestRetriesMax = 0 it runs
\* it exactly once.
C15_RetriesWithinRequestRetriesMax ==
    \A p \in DOMAIN req : req[p].currentRetry <= RequestRetriesMax

\* C16: the transport is called at most (requestRetriesMax + 1) x 4 times
\* for one request() call, which bounds the call and makes it settle once
\* every login and transport call has settled.
C16_TransportCallsBounded ==
    \A p \in DOMAIN req : req[p].calls <= (RequestRetriesMax + 1) * 4

\* C17: when executeWithRetry gives up, because the retries are used up or
\* because retryPredicate returned false, the returned promise rejects with
\* the error object of the last invocation of the operation, its message
\* and status code as the operation produced them.
C17_RejectsWithLastError ==
    phPc = "rejected" =>
        /\ phOutcome.status = "rejected"
        /\ Len(phErrors) = phInvocations
        /\ phOutcome.err = phErrors[Len(phErrors)]
        /\ phOutcome.err.id = phInvocations
        /\ [message |-> phOutcome.err.message,
            statusCode |-> phOutcome.err.statusCode] \in PhErrorKinds

\* Given up by the predicate after one retry, the two invocations having
\* failed with different errors.
C17_Witness ==
    /\ phPc = "rejected"
    /\ phOptions.retryPredicate = "firstOnly"
    /\ phOptions.maxRetries = {MaxRetriesOpt}
    /\ Len(phErrors) = 2
    /\ phErrors[1].statusCode = 0
    /\ phOutcome.err = [id |-> 2, message |-> <<"server", "error">>, statusCode |-> 500]

\* C18: the error a public SObject operation rejects with is the underlying
\* error itself, and the failure hook never changes its message: however
\* often the error passes through _updateAndThrow (get through query, or one
\* operation after the other failing with the same error), its message is
\* the original one, without request data appended, and that is the message
\* every logger.error call reports.
C18_ErrorMessageUnchanged ==
    opPc = "rejected" =>
        /\ logged # <<>>
        /\ \A i \in 1..Len(logged) : logged[i].message = opError.message
        /\ (opSent # <<>> /\ Len(opResponses) < Len(opSent)) =>
               opError \in ConnectionErrors
        /\ opError.name = "ParameterValidationError" => Len(opError.message) = 1
        /\ opError.name = "ResourceNotFoundError" =>
               opError.message = <<"No ", ObjectNameText, " found for the properties: ">>
                                 \o JsonObject(opArg)

\* A get whose query failed with the login error: the error has passed the
\* hook twice.
C18_Witness ==
    /\ opMethod = "get" /\ opPc = "rejected"
    /\ Len(logged) = 2
    /\ opError = [name |-> "Error", message |-> <<"failed login">>, statusCode |-> 401]
    /\ logged[2].message = <<"failed login">>

\* C19: _getRemainingQueryRecords sends no follow-up request for a response
\* whose done is not exactly false or whose nextRecordsUrl is missing or
\* empty, and returns the records of that response: the pagination stops at
\* the first such response.
C19_PaginationStops ==
    opMethod \in {"query", "get"} =>
        \A i \in 1..Len(opResponses) :
            (opResponses[i].done # "false" \/ opResponses[i].nextRecordsUrl = <<>>) =>
                /\ i = Len(opResponses)
                /\ Len(opSent) = i
                /\ opPc \in {"resolved", "rejected"}
                /\ Len(opRaw) >= Len(opResponses[i].records)
                /\ SubSeq(opRaw, Len(opRaw) - Len(opResponses[i].records) + 1, Len(opRaw))
                       = opResponses[i].records

\* A query ended by a second page that names a next URL but has no done
\* flag.
C19_Witness ==
    /\ opMethod = "query" /\ opPc = "resolved"
    /\ Len(opResponses) = 2 /\ Len(opSent) = 2
    /\ opResponses[2].done = "undefined"
    /\ opResponses[2].nextRecordsUrl = <<"/next2">>
    /\ opResponses[2].records = <<RemoteA>>
    /\ opRaw = opResponses[1].records \o <<RemoteA>>

\* The remote names of the string entries of a property map.
RemoteNames(map) ==
    {map[i].v.name : i \in {j \in 1..Len(map) : map[j].v.kind = "string"}}

StringPropertyMaps ==
    { << Entry(<<"id">>, Basic(<<"Id">>)), Entry(<<"name">>, Basic(<<"Name">>)) >>,
      << Entry(<<"name">>, Basic(<<"Name">>)), Entry(<<"id">>, Basic(<<"Id">>)),
         Entry(<<"owner">>, Basic(<<"Owner__c">>)) >>,
      << Entry(<<"id">>, Basic(<<"id">>)), Entry(<<"name">>, Basic(<<"Name">>)) >>,
      << Entry(<<"id">>, Basic(<<"Id">>)), Entry(<<"owner">>, Basic(<<"Owner__r", "Name">>)) >>,
      << Entry(<<"id">>, Basic(<<"Id">>)), Entry(<<"name">>, Basic(<<"Id">>)) >>,
      << Entry(<<"id">>, Basic(<<"name">>)), Entry(<<"name">>, Basic(<<"Name">>)) >> }

Scalars == { Str(<<"a">>), Str(<<"b">>), Num(1), Num(7) }

\* The entities whose keys are the friendly names of the map, in the map's
\* order or in the reverse of it.
FriendlyEntities(thisPropertyMap) ==
    LET n == Len(thisPropertyMap)
    IN UNION { { [i \in 1..n |-> Entry(thisPropertyMap[i].k, values[i])],
                 [i \in 1..n |-> Entry(thisPropertyMap[n + 1 - i].k, values[n + 1 - i])] } :
               values \in [1..n -> Scalars] }

InitRoundTrip ==
    /\ InitRetryVars /\ InitConnIdle /\ InitSObjIdle
    /\ fnName = "none"
    /\ \E map \in StringPropertyMaps : \E entity \in FriendlyEntities(map) :
          fnArgs = [propertyMap |-> map, entity |-> entity]
    /\ fnResult = <<>>

ApplyRoundTrip ==
    /\ fnName = "none"
    /\ fnName' = "roundTrip"
    /\ fnResult' = convertFromSalesForceFormat(
                       fnArgs.propertyMap,
                       convertToSalesForceFormat(fnArgs.propertyMap, "Pet__c",
                                                 fnArgs.entity, FALSE, FALSE))
    /\ UNCHANGED <<fnArgs, varsRetry, varsConn, varsSObj>>

NextRoundTrip == ApplyRoundTrip

SpecRoundTrip == InitRoundTrip /\ [][NextRoundTrip]_vars

\* Two objects with the same keys and the same value under each key.
SameObject(a, b) ==
    /\ {a[i].k : i \in 1..Len(a)} = {b[i].k : i \in 1..Len(b)}
    /\ \A i \in 1..Len(a) : ObjGet(b, a[i].k) = a[i].v

\* C21: for a property map with only string values and an entity whose keys
\* are exactly the friendly names with defined scalar values,
\* convertFromSalesForceFormat(convertToSalesForceFormat(entity)) equals the
\* entity.
C21_RoundTrip ==
    fnName = "roundTrip" => SameObject(fnResult, fnArgs.entity)

(***************************************************************************)
(* convertPropertyNames on its own: one call for a flat object and a       *)
(* one-to-one name map.                                                    *)
(***************************************************************************)
PropertyNameMaps ==
    { << Entry(<<"a">>, <<"x">>) >>,
      << Entry(<<"a">>, <<"a">>), Entry(<<"b">>, <<"x">>) >>,
      << Entry(<<"a">>, <<"b">>), Entry(<<"b">>, <<"c">>) >>,
      << Entry(<<"a">>, <<"b">>), Entry(<<"b">>, <<"a">>) >>,
      << Entry(<<"a">>, <<"x">>), Entry(<<"c">>, <<"b">>) >> }

FlatValue == [a |-> Num(1), b |-> Num(2), c |-> Num(3)]
FlatKeys == {"a", "b", "c"}

\* The flat objects with one to three of the keys a, b, c, in every
\* insertion order.
FlatEntities ==
    { [i \in 1..Len(keys) |-> Entry(<<keys[i]>>, FlatValue[keys[i]])] :
        keys \in { s \in UNION {[1..n -> FlatKeys] : n \in 1..3} :
                      \A i, j \in 1..Len(s) : i # j => s[i] # s[j] } }

InitConvertNames ==
    /\ InitRetryVars /\ InitConnIdle /\ InitSObjIdle
    /\ fnName = "none"
    /\ fnArgs \in [obj : FlatEntities, propertyNameMap : PropertyNameMaps]
    /\ fnResult = <<>>

ApplyConvertPropertyNames ==
    /\ fnName = "none"
    /\ fnName' = "convertPropertyNames"
    /\ fnResult' = convertPropertyNames(fnArgs.obj, fnArgs.propertyNameMap)
    /\ UNCHANGED <<fnArgs, varsRetry, varsConn, varsSObj>>

NextConvertNames == ApplyConvertPropertyNames

SpecConvertNames == InitConvertNames /\ [][NextConvertNames]_vars

\* C22: after convertPropertyNames(entity, nameMap), every input key k that
\* is in the map's domain is in the result under nameMap[k], with the value
\* the input had under k, also when a map target is itself a key of the
\* input or of the map's domain.
C22_EveryMappedKeyRenamed ==
    fnName = "convertPropertyNames" =>
        \A i \in 1..Len(fnArgs.obj) :
            LET k == fnArgs.obj[i].k
                target == ObjGet(fnArgs.propertyNameMap, k)
            IN ObjHas(fnArgs.propertyNameMap, k) =>
                  /\ ObjHas(fnResult, target)
                  /\ ObjGet(fnResult, target) = fnArgs.obj[i].v

(***************************************************************************)
(* buildQueryStatement on its own: one call on a fresh SObject named       *)
(* Pet__c, for each property map and options object.                       *)
(***************************************************************************)
OwnerJoin ==
    [kind |-> "join", property |-> <<"Id">>,
     relatedObject |-> [name |-> "Owner__c",
                        comparisonProperty |-> <<"Name">>,
                        queryValueProperty |-> <<"Id">>]]

QueryPropertyMaps ==
    CtorPropertyMaps \cup
    { << Entry(<<"name">>, Basic(<<"Name">>)), Entry(<<"owner">>, OwnerJoin),
         Entry(<<"id">>, Basic(<<"Id">>)), Entry(<<"streetAddress">>, StreetAddressJoin) >> }

Reversed(obj) == [i \in 1..Len(obj) |-> obj[Len(obj) + 1 - i]]

QueryOptionsSet ==
    LET some == OptionsSet \cup
                { << Entry(<<"id">>, Undefined) >>,
                  << Entry(<<"streetAddress">>, Num(9)), Entry(<<"owner">>, Str(<<"o">>)) >>,
                  << Entry(<<"name">>, Str(<<"n">>)), Entry(<<"streetAddress">>, Str(<<"x">>)),
                     Entry(<<"id">>, Num(7)), Entry(<<"owner">>, Str(<<"o">>)) >>,
                  << Entry(<<"name">>, Arr(<< Str(<<"n">>), Str(<<"m">>) >>)),
                     Entry(<<"id">>, Num(7)) >>,
                  << Entry(<<"owner">>, Str(<<"o">>)), Entry(<<"name">>, Undefined) >> }
    IN some \cup {Reversed(options) : options \in some}

InitQueryStatement ==
    /\ InitRetryVars /\ InitConnIdle /\ InitSObjIdle
    /\ fnName = "none"
    /\ fnArgs \in [propertyMap : QueryPropertyMaps, options : QueryOptionsSet]
    /\ fnResult = <<>>

ApplyBuildQueryStatement ==
    /\ fnName = "none"
    /\ fnName' = "buildQueryStatement"
    /\ fnResult' = buildQueryStatement(fnArgs.propertyMap, "Pet__c", fnArgs.options)
    /\ UNCHANGED <<fnArgs, varsRetry, varsConn, varsSObj>>

NextQueryStatement == ApplyBuildQueryStatement

SpecQueryStatement == InitQueryStatement /\ [][NextQueryStatement]_vars

\* The friendly name a string entry of the map gives the remote name.
FriendlyOf(map, remote) ==
    map[CHOOSE i \in 1..Len(map) : map[i].v = Basic(remote)].k

\* The remote names, in sort order, that the options name (by the friendly
\* name) with a defined value.
QueriedRemoteNames(map, options) ==
    SelectSeq(SortOrder,
              LAMBDA remote :
                  /\ remote \in RemoteNames(map)
                  /\ ObjHas(options, FriendlyOf(map, remote))
                  /\ ObjGet(options, FriendlyOf(map, remote)) # Undefined)

\* The options, in their own order, that name a relationship of the map.
QueriedRelationships(map, options) ==
    SelectSeq(options,
              LAMBDA e : \E i \in 1..Len(map) : map[i].k = e.k /\ map[i].v.kind = "join")

\* The remote names of the string entries, in sort order.
SelectList(map) == SelectSeq(SortOrder, LAMBDA remote : remote \in RemoteNames(map))

\* C23: the predicate of buildQueryStatement(options) lists the basic
\* comparisons first, sorted by remote field name whatever the insertion
\* order of the option keys, then the LeftInnerJoinRelationship comparisons
\* in the iteration order of options, all joined by ' AND '; the SELECT list
\* is the sorted remote names of the string-valued map entries.
C23_PredicateOrder ==
    fnName = "buildQueryStatement" =>
        LET map == fnArgs.propertyMap
            options == fnArgs.options
            remotes == QueriedRemoteNames(map, options)
            relationships == QueriedRelationships(map, options)
            basic == [i \in 1..Len(remotes) |->
                        getBasicQueryComparison(
                            remotes[i], ObjGet(options, FriendlyOf(map, remotes[i])))]
            complex == [i \in 1..Len(relationships) |->
                          createQueryComparison(ObjGet(map, relationships[i].k),
                                                relationships[i].v)]
            names == SelectList(map)
        IN fnResult =
              <<"SELECT ">>
              \o JoinText([i \in 1..Len(names) |-> NameText(names[i])], ", ")
              \o <<" FROM ", "Pet__c", " ">>
              \o (IF options = <<>> THEN <<>>
                  ELSE <<"WHERE ">> \o JoinText(basic \o complex, " AND "))
              \o <<" ORDER BY CreatedDate DESC">>

\* name was given before id and the two relationships in between and after:
\* Id comes first, then Name, then the relationships as given.
C23_Witness ==
    /\ fnName = "buildQueryStatement"
    /\ Len(fnArgs.propertyMap) = 4
    /\ fnArgs.options =
          << Entry(<<"name">>, Str(<<"n">>)), Entry(<<"streetAddress">>, Str(<<"x">>)),
             Entry(<<"id">>, Num(7)), Entry(<<"owner">>, Str(<<"o">>)) >>
    /\ fnResult =
          << "SELECT ", "Id", ", ", "Name", " FROM ", "Pet__c", " ", "WHERE ",
             "Id", " = ", "7", " AND ", "Name", " = '", "n", "'", " AND ",
             "Owner__c", " IN (SELECT ", "Person__c", " FROM ", "Address__c", " WHERE ",
             "StreetAddress__c", " = '", "x", "'", ")", " AND ",
             "Id", " IN (SELECT ", "Name", " FROM ", "Owner__c", " WHERE ",
             "Id", " = '", "o", "'", ")", " ORDER BY CreatedDate DESC" >>

\* C24: a statement of buildQueryStatement has no WHERE clause when options
\* is absent or empty, and whenever it has the WHERE keyword, at least one
\* comparison follows the keyword, also for options whose keys are all
\* unmapped or whose values are all undefined.
C24_WhereHasComparison ==
    fnName = "buildQueryStatement" =>
        /\ fnArgs.options = <<>> => \A i \in 1..Len(fnResult) : fnResult[i] # "WHERE "
        /\ \A i \in 1..Len(fnResult) :
              fnResult[i] = "WHERE " =>
                  /\ i < Len(fnResult)
                  /\ fnResult[i + 1] # " ORDER BY CreatedDate DESC"

(***************************************************************************)
(* getBasicQueryComparison on its own. A string value is the sequence of   *)
(* its characters.                                                         *)
(***************************************************************************)
MaxChars == 3

QueryStrings == UNION {[1..n -> {"a", "'"}] : n \in 0..MaxChars}

QueryScalars == {Str(chars) : chars \in QueryStrings} \cup {Num(0), Num(7), Num(1234)}

QueryValues ==
    QueryScalars \cup
    {Arr(<<first, second>>) :
        first \in {Str(<<"a">>), Str(<<"'", "a", "'">>), Num(7)},
        second \in {Str(<<"a", "'">>), Num(0), Str(<<>>)}} \cup
    {Arr(<< Num(7) >>), Arr(<< Str(<<"'">>) >>)}

QueryFields == { <<"Name">>, <<"Owner__r", "Name">> }

InitComparison ==
    /\ InitRetryVars /\ InitConnIdle /\ InitSObjIdle
    /\ fnName = "none"
    /\ fnArgs \in [property : QueryFields, value : QueryValues]
    /\ fnResult = <<>>

ApplyGetBasicQueryComparison ==
    /\ fnName = "none"
    /\ fnName' = "getBasicQueryComparison"
    /\ fnResult' = getBasicQueryComparison(fnArgs.property, fnArgs.value)
    /\ UNCHANGED <<fnArgs, varsRetry, varsConn, varsSObj>>

NextComparison == ApplyGetBasicQueryComparison

SpecComparison == InitComparison /\ [][NextComparison]_vars

RECURSIVE EveryQuoteEscaped(_)
\* The characters with a backslash put before every single quote.
EveryQuoteEscaped(chars) ==
    IF chars = <<>> THEN <<>>
    ELSE (IF Head(chars) = "'" THEN <<"\\", "'">> ELSE <<Head(chars)>>)
         \o EveryQuoteEscaped(Tail(chars))

\* The comparison the claim describes for a string or a number.
ScalarComparison(field, value) ==
    IF value.t = "string"
    THEN NameText(field) \o <<" = '">> \o EveryQuoteEscaped(value.chars) \o <<"'">>
    ELSE NameText(field) \o <<" = ", ToString(value.n)>>

\* C25: getBasicQueryComparison(field, value) returns field = '<v>' with
\* every single quote of a string value preceded by a backslash, however
\* many quotes there are; for an array the comparisons of its elements
\* joined by ' OR ' inside parentheses; for a number field = <number>
\* without quotes.
C25_ComparisonText ==
    fnName = "getBasicQueryComparison" =>
        IF fnArgs.value.t = "array"
        THEN fnResult =
                <<"(">>
                \o JoinText([i \in 1..Len(fnArgs.value.items) |->
                                ScalarComparison(fnArgs.property, fnArgs.value.items[i])],
                            " OR ")
                \o <<")">>
        ELSE fnResult = ScalarComparison(fnArgs.property, fnArgs.value)

(***************************************************************************)
(* convertFromSalesForceFormat on its own: one call on a fresh SObject for *)
(* each property map and each entity made of some of five fields.          *)
(***************************************************************************)
RemoteFields ==
    << Entry(<<"Id">>, Str(<<"a">>)),
       Entry(<<"name">>, Str(<<"stray">>)),
       Entry(<<"Owner__r">>, ObjV(<< Entry(<<"Name">>, Str(<<"o">>)) >>)),
       Entry(<<"Name">>, Str(<<"n">>)),
       Entry(<<"extra">>, Num(1)) >>

\* The entities that hold some of the fields, in the order of RemoteFields.
RemoteEntities ==
    { SelectSeq(RemoteFields, LAMBDA e : e.k \in chosen) :
        chosen \in SUBSET {RemoteFields[i].k : i \in 1..Len(RemoteFields)} }

InitConvertFrom ==
    /\ InitRetryVars /\ InitConnIdle /\ InitSObjIdle
    /\ fnName = "none"
    /\ fnArgs \in [propertyMap : CtorPropertyMaps, entity : RemoteEntities]
    /\ fnResult = <<>>

ApplyConvertFromSalesForceFormat ==
    /\ fnName = "none"
    /\ fnName' = "convertFromSalesForceFormat"
    /\ fnResult' = convertFromSalesForceFormat(fnArgs.propertyMap, fnArgs.entity)
    /\ UNCHANGED <<fnArgs, varsRetry, varsConn, varsSObj>>

NextConvertFrom == ApplyConvertFromSalesForceFormat

SpecConvertFrom == InitConvertFrom /\ [][NextConvertFrom]_vars

\* C26: every key of the result of convertFromSalesForceFormat(entity) is a
\* friendly name of the property map and its value is the input's value
\* under the remote field that name maps to; an input field that is not a
\* remote name of the map never contributes, also when its name equals a
\* friendly name.
C26_ResultFromRemoteFields ==
    fnName = "convertFromSalesForceFormat" =>
        LET map == fnArgs.propertyMap
            input == flatten(fnArgs.entity)
        IN \A i \in 1..Len(fnResult) :
              /\ ObjHas(map, fnResult[i].k)
              /\ ObjGet(map, fnResult[i].k).kind = "string"
              /\ ObjHas(input, ObjGet(map, fnResult[i].k).name)
              /\ fnResult[i].v = ObjGet(input, ObjGet(map, fnResult[i].k).name)

\* C27: executeWithRetry waits 0 ms before the initial attempt and
\* 2^k x retryBackoffFactor ms before the k-th retry, k >= 1, the factor
\* being 50 when the option is omitted, so the delays before successive
\* attempts are strictly increasing.
C27_ExponentialDelays ==
    \A i \in 1..Len(phDelays) :
        /\ i = 1 => phDelays[i] = 0
        /\ i > 1 =>
              /\ phOptions.retryBackoffFactor = {} => phDelays[i] = (2 ^ (i - 1)) * 50
              /\ \A factor \in 1..100 :
                    phOptions.retryBackoffFactor = {factor} =>
                        phDelays[i] = (2 ^ (i - 1)) * factor
              /\ phDelays[i] > phDelays[i - 1]

\* Three retries with the default factor.
C27_Witness ==
    /\ phOptions.retryBackoffFactor = {}
    /\ phCurrentRetry = 3
    /\ phDelays = <<0, 100, 200, 400>>

\* C28: a failed credential renewal is not cached: when the login call
\* rejects with an error other than 401, the request waiting for it fails,
\* and a request() started afterwards issues a new login call instead of
\* waiting on the rejected one.
C28_FailedLoginNotCached ==
    [][\A p \in DOMAIN req :
          /\ (/\ req[p].pc = "awaitToken"
              /\ logins[req[p].waitingOn].st = "rejected"
              /\ logins[req[p].waitingOn].err.statusCode # 401
              /\ req'[p] # req[p]) => req'[p].pc = "rejected"
          /\ (req[p].pc = "timer" /\ req'[p].pc = "awaitToken") =>
                ~(/\ logins'[req'[p].waitingOn].st = "rejected"
                  /\ logins'[req'[p].waitingOn].err.statusCode # 401)]_vars

(***************************************************************************)
(* The concurrent callers under the scheduling of the event loop: the      *)
(* callbacks waiting on a settled token promise (the then and the catch of *)
(* _request) run before the next timer or network answer is handled.       *)
(***************************************************************************)
ReactionPending ==
    \E p \in DOMAIN req :
        req[p].pc = "awaitToken" /\ logins[req[p].waitingOn].st # "pending"

NextConnLoop ==
    \/ \E p \in ParCallers :
          /\ ~ReactionPending /\ req[p].n = 0 /\ request(p)
          /\ UNCHANGED <<varsRetry, varsSObj, varsFn>>
    \/ \E p \in ParCallers :
          ~ReactionPending /\ TimerFires(p) /\ UNCHANGED <<varsRetry, varsSObj, varsFn>>
    \/ \E k \in 1..MaxLogins :
          ~ReactionPending /\ LoginResolves(k) /\ UNCHANGED <<varsRetry, varsSObj, varsFn>>
    \/ \E k \in 1..MaxLogins : \E error \in ParLoginErrors :
          /\ ~ReactionPending /\ LoginRejects(k, error)
          /\ UNCHANGED <<varsRetry, varsSObj, varsFn>>
    \/ \E p \in ParCallers : TokenThen(p) /\ UNCHANGED <<varsRetry, varsSObj, varsFn>>
    \/ \E p \in ParCallers : TokenCatch(p) /\ UNCHANGED <<varsRetry, varsSObj, varsFn>>
    \/ \E p \in ParCallers :
          /\ ~ReactionPending /\ TransportResolves(p)
          /\ UNCHANGED <<varsRetry, varsSObj, varsFn>>
    \/ \E p \in ParCallers : \E error \in ParTransportErrors :
          /\ ~ReactionPending /\ TransportRejects(p, error)
          /\ UNCHANGED <<varsRetry, varsSObj, varsFn>>

SpecConnLoop == InitConnPar /\ [][NextConnLoop]_vars

\* No request and no login call is in flight.
Quiescent ==
    /\ \A p \in DOMAIN req : req[p].pc \in {"idle", "resolved", "rejected"}
    /\ \A k \in 1..Len(logins) : logins[k].st # "pending"

\* C29: under any interleaving of concurrent request() calls and renewals
\* after a 401, every outgoing request uses an access token and a base URL
\* that come from the same renewal, and at quiescence the cached token and
\* the cached base URL both come from the most recently started renewal.
C29_TokenAndUrlFromOneRenewal ==
    /\ \A p \in DOMAIN req : req[p].sentTok # 0 => req[p].sentUrl = req[p].sentTok
    /\ (Quiescent /\ logins # <<>> /\ logins[Len(logins)].st = "resolved") =>
          /\ accessTokenPromise = Len(logins)
          /\ instanceUrl = Len(logins)

\* The options name a key that the map, as constructed, gives a
\* LeftInnerJoinRelationship.
NamesRelationship(options, map) ==
    \E i \in 1..Len(options) : \E j \in 1..Len(map) :
        map[j].k = options[i].k /\ map[j].v.kind = "join"

\* C30: buildQueryStatement is repeatable: on an SObject constructed with a
\* property map that has a LeftInnerJoinRelationship under key r,
\* buildQueryStatement({r: v}), and get and query with it, after any earlier
\* buildQueryStatement, query, insert or update, give the statement the
\* first call on the instance gives, with the sub-query comparison for r.
C30_StatementRepeatable ==
    (opPc # "idle" /\ NamesRelationship(opArg, ctorPropertyMap)) =>
        LET first == buildQueryStatement(ctorPropertyMap, ObjectNameText, opArg)
        IN /\ opMethod = "buildQueryStatement" => opValue = first
           /\ opMethod \in {"get", "query"} =>
                 /\ Len(opSent) >= 1
                 /\ opSent[1].qs = first

====
